---- MODULE Spec2Model ----
(***************************************************************************)
(* Model of the agentic task engine of package agentic:                    *)
(*   - Registry        (Register / Select under a sync.RWMutex)            *)
(*   - Scheduler       (task.go: Schedule / Run / Stop / worker /          *)
(*                      handleTask over a buffered channel)                *)
(*   - Orchestrator    (orchestrator.go: ExecuteTask /                     *)
(*                      ExecuteInfrastructureWorkflow)                     *)
(*                                                                         *)
(* The specifications that share the module:                               *)
(*   Spec         the Scheduler with its callers, workers and Stop         *)
(*   SpecStop     Spec, with the tasks scheduled at s.cancel() noted down  *)
(*   SpecInFlight Spec, with the Execute calls in progress at s.cancel()   *)
(*                noted down                                               *)
(*   SpecLive     the Scheduler without Stop, under fair scheduling        *)
(*   SpecStopTwice Spec with a second Stop call, under fair scheduling     *)
(*   SpecStopLive Spec under fair scheduling of the workers and of Stop    *)
(*   SpecFifo     the Scheduler with one worker and no Stop, with the      *)
(*                order of the enqueues noted down                         *)
(*   SpecOrch     one call of ExecuteInfrastructureWorkflow                *)
(*   SpecDeps     SpecOrch on workflows whose steps declare dependencies   *)
(*   SpecOrchCtx  SpecOrch with the state of the call's ctx                *)
(*   SpecBuild    one call of CreateVMWorkflow                             *)
(*   SpecNewOrch  NewOrchestrator on every configuration, then ExecuteTask *)
(*   SpecReg      concurrent Register / Select calls on one Registry       *)
(*   SpecRegLive  SpecReg under fair scheduling                            *)
(*   SpecList     SpecReg with ListConnectors calls beside it              *)
(***************************************************************************)
EXTENDS Integers, Sequences, FiniteSets, TLC

(***************************************************************************)
(* Bounds of the model.                                                    *)
(***************************************************************************)
NumTasks == 3
QueueSize == 2
NumWorkers == 2
MaxSteps == 3
NumSelectors == 2
MaxContainers == 2
MaxManifests == 2

TaskIds == 1..NumTasks
Workers == 1..NumWorkers
Selectors == 1..NumSelectors
NoTask == 0

(***************************************************************************)
(* Agents.  Name() and Supports() of the shipped connectors.               *)
(***************************************************************************)
AgentNames == {"proxmox", "docker", "kubernetes"}

Supports(agent, taskType) ==
    CASE agent = "proxmox" -> taskType \in {"vm", "container", "infrastructure"}
      [] agent = "docker" -> taskType \in {"container", "docker", "podman"}
      [] agent = "kubernetes" -> taskType \in {"kubernetes", "k8s", "cluster"}
      [] agent = "huggingface" -> taskType \in {"llm", "embedding"}
      [] agent = "io_intelligence" -> taskType \in {"llm", "embedding"}
      [] agent = "nix" -> taskType \in {"nix", "nixos", "flake", "reproducible"}
      [] agent = "gpu" -> taskType \in {"gpu", "nvidia", "cuda", "hardware"}
      [] OTHER -> FALSE

\* Task types the callers use: "container" is supported by two connectors,
\* "docker" by one, "bogus" by none.
TaskTypes == {"container", "docker", "bogus"}

\* Task types submitted to the Scheduler.
SchedTaskTypes == {"container", "bogus"}

NoAgent == "<none>"
NilError == "<nil>"

(***************************************************************************)
(* Registry.Select: scan in registration order, first supporter wins.      *)
(***************************************************************************)
RECURSIVE SelectAgent(_, _)
SelectAgent(as, taskType) ==
    IF as = <<>> THEN NoAgent
    ELSE IF Supports(Head(as), taskType) THEN Head(as)
    ELSE SelectAgent(Tail(as), taskType)

\* An error text that leaves the task type out.
SelectErrorAnonymous(taskType) == "no agent supports task type"

\* xerrors.New("no agent supports task type: " + taskType)
SelectError(taskType) == "no agent supports task type: " \o taskType

(***************************************************************************)
(* *TaskResult values.  IsNil marks the nil pointer.                       *)
(***************************************************************************)
NilResult == [IsNil |-> TRUE, Output |-> "<nil>", Error |-> NilError]
MkResult(output, error) == [IsNil |-> FALSE, Output |-> output, Error |-> error]

ExecError == "exec error"
AppError == "application error"

\* What Agent.Execute may hand back: (result, error).
\*   ok       (&TaskResult{Output: out}, nil)
\*   soft     (&TaskResult{Error: e}, nil)
\*   hardnil  (nil, err)              as the shipped connectors do
\*   hardres  (&TaskResult{...}, err) allowed by the interface
Outcomes == {"ok", "soft", "hardnil", "hardres"}

ExecResult(outcome) ==
    CASE outcome = "ok" -> MkResult("out", NilError)
      [] outcome = "soft" -> MkResult("<nil>", AppError)
      [] outcome = "hardnil" -> NilResult
      [] outcome = "hardres" -> MkResult("partial", NilError)

ExecErr(outcome) ==
    IF outcome \in {"hardnil", "hardres"} THEN ExecError ELSE NilError

VARIABLES
    agents,     \* Registry.agents
    queue,      \* Scheduler.queue: the buffered channel's content
    closed,     \* the channel has been closed
    cancelled,  \* Scheduler.ctx is done
    wg,         \* Scheduler.wg counter
    tasks,      \* the Task objects: Type, Status, Result
    sched,      \* position of each task's Schedule call
    wpc,        \* position of each worker goroutine
    wcur,       \* the task a worker holds (local variable task)
    wres,       \* handleTask's local res
    werr,       \* handleTask's local err
    runDone,    \* Run has been called
    stopPc,     \* position of the Stop call
    stopSnap,   \* the tasks scheduled when Stop was called, noted down by
                \* an observer of the call if every Schedule call had
                \* returned and a worker was running then
    stopRun,    \* the tasks whose Execute was in progress when Stop
                \* cancelled, noted down by an observer of the call
    execLog,    \* per task, the agents whose Execute was invoked for it
    execRet,    \* per task, what that Execute call handed back
    crashed,    \* an unrecovered panic ended the process
    enq,        \* the tasks in the order they entered the queue, noted
                \* down by an observer of the Schedule calls
    stop2Pc,    \* position of a second Stop call on the same Scheduler
    wf,         \* ExecuteInfrastructureWorkflow: workflow.Steps
    opc,        \* ExecuteInfrastructureWorkflow: position
    oi,         \* ExecuteInfrastructureWorkflow: loop index i
    oresult,    \* ExecuteInfrastructureWorkflow: result
    oerr,       \* ExecuteInfrastructureWorkflow: the returned error
    olog,       \* the ExecuteTask calls made, with what each handed back
    octx,       \* ExecuteInfrastructureWorkflow: the state of its ctx
    cfg,        \* CreateVMWorkflow: vmConfig
    bpc,        \* CreateVMWorkflow: position
    bi,         \* CreateVMWorkflow: index of the range loop
    config,     \* NewOrchestrator: the Config it is given
    npc,        \* NewOrchestrator: position
    ntype,      \* Orchestrator.ExecuteTask: task.Type of the latest call
    nagent,     \* Orchestrator.ExecuteTask: the agent Select handed back
    nerr,       \* Orchestrator.ExecuteTask: the error of a failed Select
    lcPc,       \* ListConnectors: position
    lcSnap,     \* ListConnectors: the slice the range loop took
    lcIdx,      \* ListConnectors: index of the range loop
    lcOut,      \* ListConnectors: connectors, by name
    rwWriter,   \* Registry.mu is held exclusively
    rwReaders,  \* number of holders of Registry.mu's read lock
    regPc,      \* position of each Register call, one per agent
    selPc,      \* position of each Select caller
    selCat,     \* Select: taskType
    selSnap,    \* Select: the slice the range loop iterates
    selIdx,     \* Select: index of the range loop
    selRes,     \* Select: the agent returned (NoAgent with the error)
    selErr      \* Select: the error returned

schedVars == <<queue, closed, cancelled, wg, tasks, sched, wpc, wcur, wres,
               werr, runDone, stopPc, stopSnap, stopRun, execLog, execRet,
               crashed, enq, stop2Pc>>

buildVars == <<cfg, bpc, bi>>

ctorVars == <<config, npc, ntype, nagent, nerr>>

orchVars == <<wf, opc, oi, oresult, oerr, olog, octx, buildVars, ctorVars>>

lcVars == <<lcPc, lcSnap, lcIdx, lcOut>>

regVars == <<rwWriter, rwReaders, regPc, selPc, selCat, selSnap, selIdx, selRes,
            selErr, lcVars>>

vars == <<agents, schedVars, orchVars, regVars>>

Terminal == {"done", "failed"}

InQueue(t) == \E i \in 1..Len(queue) : queue[i] = t

(***************************************************************************)
(* Scheduler                                                               *)
(***************************************************************************)
InitSched ==
    /\ queue = <<>>
    /\ closed = FALSE
    /\ cancelled = FALSE
    /\ wg = 0
    /\ tasks = [t \in TaskIds |-> [Type |-> "", Status |-> "", Result |-> NilResult]]
    /\ sched = [t \in TaskIds |-> "idle"]
    /\ wpc = [w \in Workers |-> "idle"]
    /\ wcur = [w \in Workers |-> NoTask]
    /\ wres = [w \in Workers |-> NilResult]
    /\ werr = [w \in Workers |-> NilError]
    /\ runDone = FALSE
    /\ stopPc = "idle"
    /\ stopSnap = {}
    /\ stopRun = {}
    /\ execLog = [t \in TaskIds |-> <<>>]
    /\ execRet = [t \in TaskIds |-> "none"]
    /\ crashed = FALSE
    /\ enq = <<>>
    /\ stop2Pc = "idle"

\* The registry as NewOrchestrator fills it: Proxmox before Docker.
InitRegistry == agents = <<"proxmox", "docker", "kubernetes">>

\* VMWorkflowConfig{}: the zero value.
NoConfig == [UseProxmox |-> FALSE, Containers |-> <<>>, KubernetesManifests |-> <<>>]

\* CreateVMWorkflow is not being called.
IdleBuild ==
    /\ cfg = NoConfig
    /\ bpc = "idle"
    /\ bi = 0

\* context.Background(): a context that is not cancelled.
LiveCtx == octx = "live"

\* NewOrchestrator is not being called.
IdleCtor ==
    /\ config = [HuggingFaceAPIKey |-> "", IOIntelligenceAPIKey |-> "", ProxmoxURL |-> ""]
    /\ npc = "idle"
    /\ ntype = ""
    /\ nagent = NoAgent
    /\ nerr = NilError

\* The orchestrator at rest: no workflow is being executed.
IdleOrch ==
    /\ IdleBuild
    /\ IdleCtor
    /\ LiveCtx
    /\ wf = <<>>
    /\ opc = "idle"
    /\ oi = 0
    /\ oresult = [WorkflowID |-> "", Status |-> "", Steps |-> <<>>]
    /\ oerr = NilError
    /\ olog = <<>>

\* ListConnectors is not being called.
IdleList ==
    /\ lcPc = "idle"
    /\ lcSnap = <<>>
    /\ lcIdx = 0
    /\ lcOut = <<>>

\* No Register or Select call is in progress.
IdleReg ==
    /\ IdleList
    /\ rwWriter = FALSE
    /\ rwReaders = 0
    /\ regPc = [a \in AgentNames |-> "done"]
    /\ selPc = [c \in Selectors |-> "idle"]
    /\ selCat = [c \in Selectors |-> ""]
    /\ selSnap = [c \in Selectors |-> <<>>]
    /\ selIdx = [c \in Selectors |-> 0]
    /\ selRes = [c \in Selectors |-> NoAgent]
    /\ selErr = [c \in Selectors |-> NilError]

Init == InitRegistry /\ InitSched /\ IdleOrch /\ IdleReg

\* A send on the buffered channel proceeds only while the buffer has room.
CanSendAlways == TRUE

CanSend == Len(queue) < QueueSize

\* CreateTaskHandler: build the task with Status "queued" and call Schedule.
\* The send s.queue <- task completes at once when the buffer has room,
\* panics when the channel is closed, and blocks otherwise.
\* Tasks are numbered in the order their callers arrive.
\* entered is what an observer of the call notes down in enq when the send
\* completes.
Send(t, ty, entered) ==
    /\ ~crashed
    /\ sched[t] = "idle"
    /\ tasks' = [tasks EXCEPT ![t] = [Type |-> ty, Status |-> "queued", Result |-> NilResult]]
    /\ IF closed
       THEN /\ sched' = [sched EXCEPT ![t] = "panicked"]
            /\ UNCHANGED <<queue, enq>>
       ELSE IF CanSend
       THEN /\ sched' = [sched EXCEPT ![t] = "returned"]
            /\ queue' = Append(queue, t)
            /\ enq' = entered
       ELSE /\ sched' = [sched EXCEPT ![t] = "blocked"]
            /\ UNCHANGED <<queue, enq>>
    /\ UNCHANGED <<regVars, orchVars, agents, stop2Pc, closed, cancelled, wg, wpc, wcur, wres, werr,
                   runDone, stopPc, stopSnap, stopRun, execLog, execRet, crashed>>

\* Schedule, unobserved.
Schedule(t, ty) ==
    /\ \A u \in TaskIds : u < t => sched[u] # "idle"
    /\ Send(t, ty, enq)

\* A blocked send that completes whether or not the channel was closed.
ScheduleUnblockClosed(t) ==
    /\ ~crashed
    /\ sched[t] = "blocked"
    /\ CanSend
    /\ queue' = Append(queue, t)
    /\ sched' = [sched EXCEPT ![t] = "returned"]
    /\ UNCHANGED <<regVars, orchVars, agents, stop2Pc, enq, closed, cancelled, wg, tasks, wpc, wcur, wres,
                   werr, runDone, stopPc, stopSnap, stopRun, execLog, execRet, crashed>>

\* Schedule: a blocked send completes once the buffer has room again.
SendUnblock(t, entered) ==
    /\ ~crashed
    /\ sched[t] = "blocked"
    /\ ~closed
    /\ CanSend
    /\ queue' = Append(queue, t)
    /\ enq' = entered
    /\ sched' = [sched EXCEPT ![t] = "returned"]
    /\ UNCHANGED <<regVars, orchVars, agents, stop2Pc, closed, cancelled, wg, tasks, wpc, wcur, wres, werr,
                   runDone, stopPc, stopSnap, stopRun, execLog, execRet, crashed>>

\* The blocked send completing, unobserved.
ScheduleUnblock(t) == SendUnblock(t, enq)

\* Schedule: a send blocked on the channel panics when the channel is closed.
SchedulePanic(t) ==
    /\ ~crashed
    /\ sched[t] = "blocked"
    /\ closed
    /\ sched' = [sched EXCEPT ![t] = "panicked"]
    /\ UNCHANGED <<regVars, orchVars, agents, stop2Pc, enq, queue, closed, cancelled, wg, tasks, wpc, wcur, wres,
                   werr, runDone, stopPc, stopSnap, stopRun, execLog, execRet, crashed>>

\* Run(k): wg.Add(1) and go s.worker(), k times.
Run(k) ==
    /\ ~crashed
    /\ ~runDone
    /\ runDone' = TRUE
    /\ wg' = wg + k
    /\ wpc' = [w \in Workers |-> IF w <= k THEN "select" ELSE wpc[w]]
    /\ UNCHANGED <<regVars, orchVars, agents, stop2Pc, enq, queue, closed, cancelled, tasks, sched, wcur, wres,
                   werr, stopPc, stopSnap, stopRun, execLog, execRet, crashed>>

\* Workers blocked in select are interchangeable goroutines: the lowest
\* numbered one stands for whichever of them the runtime wakes.
Selecting(w) ==
    /\ wpc[w] = "select"
    /\ \A v \in Workers : v < w => wpc[v] # "select"

\* worker: select picks the <-s.ctx.Done() case.
W_CtxDone(w) ==
    /\ ~crashed
    /\ Selecting(w)
    /\ cancelled
    /\ wpc' = [wpc EXCEPT ![w] = "exited"]
    /\ wg' = wg - 1
    /\ UNCHANGED <<regVars, orchVars, agents, stop2Pc, enq, queue, closed, cancelled, tasks, sched, wcur, wres,
                   werr, runDone, stopPc, stopSnap, stopRun, execLog, execRet, crashed>>

\* worker: the receive reports ok = false, the channel is closed and empty.
W_QueueClosed(w) ==
    /\ ~crashed
    /\ Selecting(w)
    /\ closed
    /\ queue = <<>>
    /\ wpc' = [wpc EXCEPT ![w] = "exited"]
    /\ wg' = wg - 1
    /\ UNCHANGED <<regVars, orchVars, agents, stop2Pc, enq, queue, closed, cancelled, tasks, sched, wcur, wres,
                   werr, runDone, stopPc, stopSnap, stopRun, execLog, execRet, crashed>>

\* A receive that hands out the newest queued task.
W_DequeueLast(w) ==
    /\ ~crashed
    /\ Selecting(w)
    /\ queue # <<>>
    /\ wcur' = [wcur EXCEPT ![w] = queue[Len(queue)]]
    /\ queue' = SubSeq(queue, 1, Len(queue) - 1)
    /\ wpc' = [wpc EXCEPT ![w] = "handle"]
    /\ UNCHANGED <<regVars, orchVars, agents, stop2Pc, enq, closed, cancelled, wg, tasks, sched, wres, werr,
                   runDone, stopPc, stopSnap, stopRun, execLog, execRet, crashed>>

\* worker: select picks the receive case and gets the oldest queued task.
\* Go's select chooses among the ready cases at random, so this case can be
\* taken while the context is already done.
W_Dequeue(w) ==
    /\ ~crashed
    /\ Selecting(w)
    /\ queue # <<>>
    /\ wcur' = [wcur EXCEPT ![w] = Head(queue)]
    /\ queue' = Tail(queue)
    /\ wpc' = [wpc EXCEPT ![w] = "handle"]
    /\ UNCHANGED <<regVars, orchVars, agents, stop2Pc, enq, closed, cancelled, wg, tasks, sched, wres, werr,
                   runDone, stopPc, stopSnap, stopRun, execLog, execRet, crashed>>

\* handleTask: Select fails; task.Status = "failed".
W_SelectFail(w) ==
    /\ ~crashed
    /\ wpc[w] = "handle"
    /\ SelectAgent(agents, tasks[wcur[w]].Type) = NoAgent
    /\ tasks' = [tasks EXCEPT ![wcur[w]].Status = "failed"]
    /\ werr' = [werr EXCEPT ![w] = SelectError(tasks[wcur[w]].Type)]
    /\ wpc' = [wpc EXCEPT ![w] = "failres"]
    /\ UNCHANGED <<regVars, orchVars, agents, stop2Pc, enq, queue, closed, cancelled, wg, sched, wcur, wres,
                   runDone, stopPc, stopSnap, stopRun, execLog, execRet, crashed>>

\* &TaskResult{Error: err}
FailedResultNoError(err) == MkResult("<nil>", NilError)

FailedResult(err) == MkResult("<nil>", err)

\* handleTask: task.Result = &TaskResult{Error: err}; return to the loop.
W_FailResult(w) ==
    /\ ~crashed
    /\ wpc[w] = "failres"
    /\ tasks' = [tasks EXCEPT ![wcur[w]].Result = FailedResult(werr[w])]
    /\ wpc' = [wpc EXCEPT ![w] = "select"]
    /\ wcur' = [wcur EXCEPT ![w] = NoTask]
    /\ werr' = [werr EXCEPT ![w] = NilError]
    /\ UNCHANGED <<regVars, orchVars, agents, stop2Pc, enq, queue, closed, cancelled, wg, sched, wres, runDone,
                   stopPc, stopSnap, stopRun, execLog, execRet, crashed>>

\* handleTask: Select succeeds; task.Status = "running"; Execute is invoked.
W_SelectOk(w) ==
    /\ ~crashed
    /\ wpc[w] = "handle"
    /\ SelectAgent(agents, tasks[wcur[w]].Type) # NoAgent
    /\ tasks' = [tasks EXCEPT ![wcur[w]].Status = "running"]
    /\ execLog' = [execLog EXCEPT ![wcur[w]] =
                      Append(@, SelectAgent(agents, tasks[wcur[w]].Type))]
    /\ wpc' = [wpc EXCEPT ![w] = "exec"]
    /\ UNCHANGED <<regVars, orchVars, agents, stop2Pc, enq, queue, closed, cancelled, wg, sched, wcur, wres,
                   werr, runDone, stopPc, stopSnap, stopRun, execRet, crashed>>

\* A handleTask that leaves the status at "running" when Execute is over.
StatusAfterExecuteRunning(err) == "running"

\* The status handleTask writes once Execute has returned.
StatusAfterExecuteRetry(err) == IF err # NilError THEN "queued" ELSE "done"

StatusAfterExecute(err) == "done"

\* handleTask: res, err := agent.Execute(...) returns; task.Status = "done".
W_ExecReturn(w, outcome) ==
    /\ ~crashed
    /\ wpc[w] = "exec"
    /\ wres' = [wres EXCEPT ![w] = ExecResult(outcome)]
    /\ werr' = [werr EXCEPT ![w] = ExecErr(outcome)]
    /\ tasks' = [tasks EXCEPT ![wcur[w]].Status = StatusAfterExecute(ExecErr(outcome))]
    /\ wpc' = [wpc EXCEPT ![w] = "setres"]
    /\ execRet' = [execRet EXCEPT ![wcur[w]] = outcome]
    /\ UNCHANGED <<regVars, orchVars, agents, stop2Pc, enq, queue, closed, cancelled, wg, sched, wcur, runDone,
                   stopPc, stopSnap, stopRun, execLog, crashed>>

\* A store that drops the error carried in the result.
StoredResultNoError(res) == [res EXCEPT !.Error = NilError]

\* task.Result = res: the pointer Execute returned is stored as it is.
StoredResult(res) == res

\* handleTask: task.Result = res; return to the loop when err == nil.
W_SetResult(w) ==
    /\ ~crashed
    /\ wpc[w] = "setres"
    /\ tasks' = [tasks EXCEPT ![wcur[w]].Result = StoredResult(wres[w])]
    /\ IF werr[w] # NilError
       THEN /\ wpc' = [wpc EXCEPT ![w] = "seterr"]
            /\ UNCHANGED <<wcur, wres, werr>>
       ELSE /\ wpc' = [wpc EXCEPT ![w] = "select"]
            /\ wcur' = [wcur EXCEPT ![w] = NoTask]
            /\ wres' = [wres EXCEPT ![w] = NilResult]
            /\ UNCHANGED werr
    /\ UNCHANGED <<regVars, orchVars, agents, stop2Pc, enq, queue, closed, cancelled, wg, sched, runDone,
                   stopPc, stopSnap, stopRun, execLog, execRet, crashed>>

\* An error path that puts the task back into the queue for another run.
W_SetErrorRequeue(w) ==
    /\ ~crashed
    /\ wpc[w] = "seterr"
    /\ ~tasks[wcur[w]].Result.IsNil
    /\ tasks' = [tasks EXCEPT ![wcur[w]].Result.Error = werr[w]]
    /\ queue' = Append(queue, wcur[w])
    /\ wpc' = [wpc EXCEPT ![w] = "select"]
    /\ wcur' = [wcur EXCEPT ![w] = NoTask]
    /\ wres' = [wres EXCEPT ![w] = NilResult]
    /\ werr' = [werr EXCEPT ![w] = NilError]
    /\ UNCHANGED <<regVars, orchVars, agents, stop2Pc, enq, closed, cancelled, wg, sched, runDone,
                   stopPc, stopSnap, stopRun, execLog, execRet, crashed>>

\* handleTask: task.Result.Error = err, on a result that is not nil.
W_SetError(w) ==
    /\ ~crashed
    /\ wpc[w] = "seterr"
    /\ ~tasks[wcur[w]].Result.IsNil
    /\ tasks' = [tasks EXCEPT ![wcur[w]].Result.Error = werr[w]]
    /\ wpc' = [wpc EXCEPT ![w] = "select"]
    /\ wcur' = [wcur EXCEPT ![w] = NoTask]
    /\ wres' = [wres EXCEPT ![w] = NilResult]
    /\ werr' = [werr EXCEPT ![w] = NilError]
    /\ UNCHANGED <<regVars, orchVars, agents, stop2Pc, enq, queue, closed, cancelled, wg, sched, runDone,
                   stopPc, stopSnap, stopRun, execLog, execRet, crashed>>

\* handleTask: task.Result.Error = err with task.Result == nil: a nil pointer
\* dereference.  The worker goroutine has no recover, so the process dies.
W_SetErrorPanic(w) ==
    /\ ~crashed
    /\ wpc[w] = "seterr"
    /\ tasks[wcur[w]].Result.IsNil
    /\ wpc' = [wpc EXCEPT ![w] = "panicked"]
    /\ crashed' = TRUE
    /\ UNCHANGED <<regVars, orchVars, agents, stop2Pc, enq, queue, closed, cancelled, wg, tasks, sched, wcur,
                   wres, werr, runDone, stopPc, stopSnap, stopRun, execLog, execRet>>

\* Stop: s.cancel().  scheduled and inflight are what an observer of the
\* call notes down about the tasks at that moment.
Cancel(scheduled, inflight) ==
    /\ ~crashed
    /\ stopPc = "idle"
    /\ cancelled' = TRUE
    /\ stopSnap' = scheduled
    /\ stopRun' = inflight
    /\ stopPc' = "close"
    /\ UNCHANGED <<regVars, orchVars, agents, stop2Pc, enq, queue, closed, wg, tasks, sched, wpc, wcur, wres,
                   werr, runDone, execLog, execRet, crashed>>

\* Stop: s.cancel(), unobserved.
S_Cancel == Cancel(stopSnap, stopRun)

\* The scheduled tasks, when every Schedule call has returned and a worker
\* is running.
AllScheduled ==
    IF wg >= 1 /\ \A t \in TaskIds : sched[t] = "returned" THEN TaskIds ELSE {}

\* The tasks whose Execute is in progress: handleTask has set "running" and
\* Execute has not returned.
InFlight == {t \in TaskIds : tasks[t].Status = "running"}

\* Stop: s.cancel(), with the scheduled tasks noted down.
S_CancelObserved == Cancel(AllScheduled, stopRun)

\* Stop: s.cancel(), with the Execute calls in progress noted down.
S_CancelInFlight == Cancel(stopSnap, InFlight)

\* Stop: close(s.queue).
S_Close ==
    /\ ~crashed
    /\ stopPc = "close"
    /\ ~closed
    /\ closed' = TRUE
    /\ stopPc' = "wait"
    /\ UNCHANGED <<regVars, orchVars, agents, stop2Pc, enq, queue, cancelled, wg, tasks, sched, wpc, wcur, wres,
                   werr, runDone, stopSnap, stopRun, execLog, execRet, crashed>>

\* s.wg.Wait() returns once the counter is zero.
WaitDoneNoJoin == TRUE

WaitDone == wg = 0

\* Stop: s.wg.Wait() returns, and so does Stop.
S_Wait ==
    /\ ~crashed
    /\ stopPc = "wait"
    /\ WaitDone
    /\ stopPc' = "returned"
    /\ UNCHANGED <<regVars, orchVars, agents, stop2Pc, enq, queue, closed, cancelled, wg, tasks, sched, wpc,
                   wcur, wres, werr, runDone, stopSnap, stopRun, execLog, execRet, crashed>>

WorkerStep(w) ==
    \/ W_CtxDone(w)
    \/ W_QueueClosed(w)
    \/ W_Dequeue(w)
    \/ W_SelectFail(w)
    \/ W_FailResult(w)
    \/ W_SelectOk(w)
    \/ \E o \in Outcomes : W_ExecReturn(w, o)
    \/ W_SetResult(w)
    \/ W_SetError(w)
    \/ W_SetErrorPanic(w)

Next ==
    \/ \E t \in TaskIds, ty \in SchedTaskTypes : Schedule(t, ty)
    \/ \E t \in TaskIds : ScheduleUnblock(t)
    \/ \E t \in TaskIds : SchedulePanic(t)
    \/ \E k \in 0..NumWorkers : Run(k)
    \/ \E w \in Workers : W_CtxDone(w)
    \/ \E w \in Workers : W_QueueClosed(w)
    \/ \E w \in Workers : W_Dequeue(w)
    \/ \E w \in Workers : W_SelectFail(w)
    \/ \E w \in Workers : W_FailResult(w)
    \/ \E w \in Workers : W_SelectOk(w)
    \/ \E w \in Workers, o \in Outcomes : W_ExecReturn(w, o)
    \/ \E w \in Workers : W_SetResult(w)
    \/ \E w \in Workers : W_SetError(w)
    \/ \E w \in Workers : W_SetErrorPanic(w)
    \/ S_Cancel
    \/ S_Close
    \/ S_Wait

Spec == Init /\ [][Next]_vars

(***************************************************************************)
(* Scheduler properties                                                    *)
(***************************************************************************)
Returned(t) == sched[t] = "returned"

Held(t) == \E w \in Workers : wcur[w] = t

\* t has been dequeued and handleTask has returned for it.
Handled(t) == Returned(t) /\ ~InQueue(t) /\ ~Held(t)

Unsupported(t) == \A i \in 1..Len(agents) : ~Supports(agents[i], tasks[t].Type)

\* t is finished with its Result stored, or still waits untouched in the queue.
Settled(t) ==
    \/ tasks[t].Status \in Terminal /\ ~tasks[t].Result.IsNil /\ ~InQueue(t)
    \/ tasks[t].Status = "queued" /\ InQueue(t)

\* C1 as stated: when Stop() returns, having been called with the M tasks
\* scheduled (no Schedule call in flight) and at least one worker running,
\* every one of the M tasks has a terminal status.
C1_StopDrainsQueue ==
    stopPc = "returned" => \A t \in stopSnap : tasks[t].Status \in Terminal

\* C1 as amended: at the step in which Stop() returns, every task whose
\* Schedule call has returned is either terminal with its Result stored or
\* still queued, unprocessed, in the closed queue; none is being handled.
C1_StopJoinsWorkers ==
    [][stopPc # "returned" /\ stopPc' = "returned" =>
           \A t \in TaskIds : Returned(t) => Settled(t)]_vars

\* Stop() has returned leaving one scheduled task finished and another one
\* unprocessed in the queue.
C1_Witness ==
    /\ stopPc = "returned"
    /\ \E t \in stopSnap : tasks[t].Status \in Terminal /\ ~tasks[t].Result.IsNil
    /\ \E t \in stopSnap : tasks[t].Status = "queued" /\ InQueue(t)

\* C2: whenever Execute has returned an error for a task, no worker has
\* panicked, the task has a terminal status and, once handleTask is through
\* with it, its Result is set and Result.Error is that error.
C2_ExecErrorFolded ==
    \A t \in TaskIds :
        execRet[t] \in {"hardnil", "hardres"} =>
            /\ \A w \in Workers : wcur[w] = t => wpc[w] # "panicked"
            /\ tasks[t].Status \in Terminal
            /\ Handled(t) => /\ ~tasks[t].Result.IsNil
                             /\ tasks[t].Result.Error = ExecError

\* C7: the queue never holds more than QueueSize tasks; a task whose Schedule
\* call returned is in the queue, held by a worker or already processed; and
\* while no worker has been started, as many calls have returned as the
\* queue holds and a call is blocked only on a full queue.
C7_Backpressure ==
    /\ Len(queue) <= QueueSize
    /\ \A t \in TaskIds :
           Returned(t) => InQueue(t) \/ Held(t) \/ tasks[t].Status # "queued"
    /\ ~runDone =>
           /\ Cardinality({t \in TaskIds : Returned(t)}) = Len(queue)
           /\ \A t \in TaskIds :
                  sched[t] = "blocked" /\ ~closed => Len(queue) = QueueSize

\* With no worker started, QueueSize calls have returned, the queue is full
\* and a further call is blocked.
C7_Witness ==
    /\ ~runDone
    /\ ~closed
    /\ Len(queue) = QueueSize
    /\ Cardinality({t \in TaskIds : Returned(t)}) = QueueSize
    /\ \E t \in TaskIds : sched[t] = "blocked"

StatusSteps ==
    {<<"", "queued">>, <<"queued", "running">>, <<"running", "done">>,
     <<"queued", "failed">>}

\* C9: a task's status only moves queued -> running -> done or
\* queued -> failed; it never moves back and a terminal status never changes.
C9_StatusMonotonic ==
    [][\A t \in TaskIds :
           tasks'[t].Status # tasks[t].Status =>
               <<tasks[t].Status, tasks'[t].Status>> \in StatusSteps]_vars

\* One task has gone through running to done, another went to failed.
C9_Witness ==
    /\ \E t \in TaskIds : tasks[t].Status = "done" /\ execLog[t] # <<>>
    /\ \E t \in TaskIds : tasks[t].Status = "failed"

\* C10: a task no registered agent supports is never passed to Execute and
\* never makes its worker panic; it gets status failed, and once handleTask
\* is through with it its Result carries the resolution error.
C10_ResolutionFailure ==
    \A t \in TaskIds :
        tasks[t].Status # "" /\ Unsupported(t) =>
            /\ execLog[t] = <<>>
            /\ \A w \in Workers :
                   wcur[w] = t => wpc[w] \in {"handle", "failres"}
            /\ tasks[t].Status \in {"queued", "failed"}
            /\ Handled(t) =>
                   /\ tasks[t].Status = "failed"
                   /\ tasks[t].Result = MkResult("<nil>", SelectError(tasks[t].Type))

\* With a single worker started, the first task failed resolution and the
\* same worker has gone on to process the second one.
C10_Witness ==
    /\ runDone
    /\ wg = 1
    /\ Handled(1) /\ Unsupported(1) /\ tasks[1].Status = "failed"
    /\ Handled(2) /\ tasks[2].Status \in Terminal

\* C11: once Stop() has signalled cancellation, a task that was waiting in
\* the queue at that moment stays in the queue: no worker takes it from
\* there to handle it.  (A task of stopSnap that is in the queue was in the
\* queue when Stop() cancelled, since a task enters the queue only once.)
C11_CancelHaltsDraining ==
    [][\A t \in stopSnap : cancelled /\ InQueue(t) => InQueue(t)']_vars

\* The number of times t sits in the queue.
QueueCount(t) == Cardinality({i \in 1..Len(queue) : queue[i] = t})

\* C16: a task is in the queue at most once and only before it was ever
\* handled (status queued, Execute not invoked), it is held by at most one
\* worker and not while it is in the queue, and Execute is invoked for it
\* at most once, whatever Execute returned.
C16_AtMostOnce ==
    \A t \in TaskIds :
        /\ QueueCount(t) <= 1
        /\ Cardinality({w \in Workers : wcur[w] = t}) <= 1
        /\ ~(InQueue(t) /\ Held(t))
        /\ InQueue(t) =>
               /\ Returned(t)
               /\ tasks[t].Status = "queued"
               /\ execLog[t] = <<>>
               /\ execRet[t] = "none"
        /\ Len(execLog[t]) <= 1
        /\ execRet[t] # "none" => Len(execLog[t]) = 1

\* Two workers have handled two tasks, one of them with an execution error,
\* each executed once, and have gone back to wait on the queue.
C16_Witness ==
    /\ wg = 2
    /\ \A w \in {1, 2} : wpc[w] = "select"
    /\ Handled(1) /\ Handled(2)
    /\ Len(execLog[1]) = 1 /\ Len(execLog[2]) = 1
    /\ execRet[1] = "hardres"
    /\ tasks[1].Result.Error = ExecError

\* The workers that were started.
Started == {w \in Workers : wpc[w] # "idle"}

\* C17: task b, scheduled after a task a whose Schedule call found room in
\* the queue, is terminal before a only while a is in the hands of another
\* worker, which takes two workers at least; with two workers that
\* execution is reachable (C17_Witness).
C17_CompletionOrder ==
    \A a, b \in TaskIds :
        /\ a < b
        /\ a <= QueueSize
        /\ tasks[b].Status \in Terminal
        /\ tasks[a].Status \notin Terminal
        => /\ Held(a)
           /\ ~Held(b) \/ \E v, w \in Workers : v # w /\ wcur[v] = a /\ wcur[w] = b
           /\ Cardinality(Started) >= 2

\* Task 2, scheduled after task 1, is done with its Result stored while
\* task 1 is still running on the other worker.
C17_Witness ==
    /\ Cardinality(Started) = 2
    /\ Returned(1) /\ Returned(2)
    /\ tasks[1].Status = "running"
    /\ tasks[2].Status = "done"
    /\ Handled(2)

\* C19: when an agent was found and Execute returned a Result and no
\* execution error, then, once handleTask is through with the task, its
\* status is done and task.Result is the Result Execute returned: the same
\* Output and the same application-level error, if it carries one.
C19_ResultStoredAsIs ==
    \A t \in TaskIds :
        execRet[t] \in {"ok", "soft"} /\ Handled(t) =>
            /\ tasks[t].Status = "done"
            /\ tasks[t].Result = ExecResult(execRet[t])
            /\ execRet[t] = "ok" =>
                   tasks[t].Result.Output = "out" /\ tasks[t].Result.Error = NilError
            /\ execRet[t] = "soft" => tasks[t].Result.Error = AppError

\* One task is done with the Output its Execute returned, another with the
\* application-level error its Result carried.
C19_Witness ==
    /\ \E t \in TaskIds :
           Handled(t) /\ execRet[t] = "ok" /\ tasks[t].Result.Output = "out"
    /\ \E t \in TaskIds :
           Handled(t) /\ execRet[t] = "soft" /\ tasks[t].Result.Error = AppError

\* C21: in every state, a task whose status is done or failed has a Result
\* that is not nil.
C21_TerminalHasResult ==
    \A t \in TaskIds : tasks[t].Status \in Terminal => ~tasks[t].Result.IsNil

\* C22: a task has status failed only if no registered agent supports its
\* type, and a task handleTask is through with is failed if and only if no
\* agent supports its type and done otherwise; when Execute has returned an
\* error the status is done and, once the worker has left the writes of
\* handleTask behind, Result.Error is that error.
C22_TerminalStatusMeaning ==
    \A t \in TaskIds :
        /\ tasks[t].Status = "failed" => Unsupported(t) /\ execLog[t] = <<>>
        /\ Handled(t) => (tasks[t].Status = "failed" <=> Unsupported(t))
        /\ Handled(t) /\ ~Unsupported(t) => tasks[t].Status = "done"
        /\ execRet[t] \in {"hardnil", "hardres"} =>
               /\ tasks[t].Status = "done"
               /\ (\A w \in Workers : wcur[w] = t => wpc[w] \notin {"setres", "seterr"})
                      => /\ ~tasks[t].Result.IsNil
                         /\ tasks[t].Result.Error = ExecError

\* C23: once the queue is closed no step adds a task to it and no Schedule
\* call returns normally; a Schedule call that ends after the close ends
\* panicked, with its task outside the queue.
C23_ClosedForNewEntries ==
    [][closed =>
         \A t \in TaskIds :
             /\ ~InQueue(t) => ~InQueue(t)'
             /\ Len(queue') <= Len(queue)
             /\ sched[t] # "returned" => sched'[t] # "returned"
             /\ sched[t] # sched'[t] => sched'[t] = "panicked" /\ ~InQueue(t)']_vars

\* The queue is closed and full and a Schedule call has panicked on it.
C23_Witness ==
    /\ closed
    /\ Len(queue) = QueueSize
    /\ \E t \in TaskIds : sched[t] = "panicked" /\ tasks[t].Status = "queued"

\* C26: in every state the number of tasks with status running is at most
\* the number of workers Run has started.
C26_BoundedConcurrency ==
    Cardinality(InFlight) <= Cardinality(Started)

\* Every worker there can be was started and each has a task running.
C26_Witness ==
    /\ Cardinality(Started) = NumWorkers
    /\ Cardinality(InFlight) = NumWorkers
    /\ \A w \in Workers : wpc[w] = "exec"

(***************************************************************************)
(* The Scheduler with an observed Stop: the same callers, workers and Stop *)
(* as in Spec, with the tasks scheduled (SpecStop) or the Execute calls in *)
(* progress (SpecInFlight) noted down at s.cancel().                       *)
(***************************************************************************)
\* Every step of the Scheduler but s.cancel().
StepButCancel ==
    \/ \E t \in TaskIds, ty \in SchedTaskTypes : Schedule(t, ty)
    \/ \E t \in TaskIds : ScheduleUnblock(t)
    \/ \E t \in TaskIds : SchedulePanic(t)
    \/ \E k \in 0..NumWorkers : Run(k)
    \/ \E w \in Workers : W_CtxDone(w)
    \/ \E w \in Workers : W_QueueClosed(w)
    \/ \E w \in Workers : W_Dequeue(w)
    \/ \E w \in Workers : W_SelectFail(w)
    \/ \E w \in Workers : W_FailResult(w)
    \/ \E w \in Workers : W_SelectOk(w)
    \/ \E w \in Workers, o \in Outcomes : W_ExecReturn(w, o)
    \/ \E w \in Workers : W_SetResult(w)
    \/ \E w \in Workers : W_SetError(w)
    \/ \E w \in Workers : W_SetErrorPanic(w)
    \/ S_Close
    \/ S_Wait

NextStop == StepButCancel \/ S_CancelObserved

SpecStop == Init /\ [][NextStop]_vars

NextInFlight == StepButCancel \/ S_CancelInFlight

SpecInFlight == Init /\ [][NextInFlight]_vars

\* A task of stopRun has been run to its end: the worker handling it has
\* not panicked and, once handleTask is through with it or Stop() has
\* returned, it has status done and its Result recorded.
RunToEnd(t) ==
    /\ tasks[t].Status \in {"running", "done"}
    /\ \A w \in Workers : wcur[w] = t => wpc[w] # "panicked"
    /\ Handled(t) \/ stopPc = "returned" =>
           tasks[t].Status = "done" /\ ~tasks[t].Result.IsNil

\* C12: every task whose Execute was in progress when Stop() signalled
\* cancellation is run to its end and gets its final status and Result
\* recorded, and at the step in which Stop() returns no task has status
\* running.
C12_StopNonPreemptive ==
    /\ [](\A t \in stopRun : RunToEnd(t))
    /\ [][stopPc # "returned" /\ stopPc' = "returned" =>
              \A t \in TaskIds : tasks[t].Status # "running"]_vars

(***************************************************************************)
(* The Scheduler without Stop, under fair scheduling of the worker         *)
(* goroutines and with Execute calls that return.                          *)
(***************************************************************************)
WorkerStepLive(w) ==
    \/ W_Dequeue(w)
    \/ W_SelectFail(w)
    \/ W_FailResult(w)
    \/ W_SelectOk(w)
    \/ \E o \in Outcomes : W_ExecReturn(w, o)
    \/ W_SetResult(w)
    \/ W_SetError(w)
    \/ W_SetErrorPanic(w)

NextLive ==
    \/ \E t \in TaskIds, ty \in SchedTaskTypes : Schedule(t, ty)
    \/ \E t \in TaskIds : ScheduleUnblock(t)
    \/ \E k \in 0..NumWorkers : Run(k)
    \/ \E w \in Workers : W_Dequeue(w)
    \/ \E w \in Workers : W_SelectFail(w)
    \/ \E w \in Workers : W_FailResult(w)
    \/ \E w \in Workers : W_SelectOk(w)
    \/ \E w \in Workers, o \in Outcomes : W_ExecReturn(w, o)
    \/ \E w \in Workers : W_SetResult(w)
    \/ \E w \in Workers : W_SetError(w)
    \/ \E w \in Workers : W_SetErrorPanic(w)

SpecLive ==
    /\ Init
    /\ [][NextLive]_vars
    /\ \A w \in Workers : WF_vars(WorkerStepLive(w))

\* The Scheduler with Stop, under the scheduling the Go runtime gives: every
\* worker goroutine and the goroutine inside Stop keep taking their steps.
SpecStopLive ==
    /\ Init
    /\ [][Next]_vars
    /\ \A w \in Workers : WF_vars(WorkerStep(w))
    /\ WF_vars(S_Close)
    /\ WF_vars(S_Wait)

\* C25: a Stop() that has been called eventually returns, and at the step in
\* which it returns every worker loop started by Run has exited.
C25_StopTerminates ==
    /\ (stopPc \in {"close", "wait"}) ~> (stopPc = "returned")
    /\ [][stopPc # "returned" /\ stopPc' = "returned" =>
            \A w \in Workers : wpc'[w] \in {"idle", "exited"}]_vars

\* C8: a scheduled task whose type a registered agent supports, with at
\* least one worker started, eventually has status done and a Result that
\* is not nil.
C8_SchedulerCompletion ==
    \A t \in TaskIds :
        (Returned(t) /\ ~Unsupported(t) /\ wg >= 1)
            ~> (tasks[t].Status = "done" /\ ~tasks[t].Result.IsNil)

(***************************************************************************)
(* The Scheduler with two Stop calls, one after the other or overlapping,  *)
(* under fair scheduling.  A panic of close(s.queue) ends the call it      *)
(* happens in.                                                             *)
(***************************************************************************)
\* Stop: close(s.queue) on the channel the other call has closed panics.
S_ClosePanic ==
    /\ ~crashed
    /\ stopPc = "close"
    /\ closed
    /\ stopPc' = "panicked"
    /\ UNCHANGED <<regVars, orchVars, agents, stop2Pc, enq, queue, closed, cancelled, wg, tasks,
                   sched, wpc, wcur, wres, werr, runDone, stopSnap, stopRun, execLog, execRet,
                   crashed>>

\* The second Stop call: s.cancel(), on a context that may be done already.
S2_Cancel ==
    /\ ~crashed
    /\ stop2Pc = "idle"
    /\ cancelled' = TRUE
    /\ stop2Pc' = "close"
    /\ UNCHANGED <<regVars, orchVars, agents, enq, queue, closed, wg, tasks, sched, wpc, wcur,
                   wres, werr, runDone, stopPc, stopSnap, stopRun, execLog, execRet, crashed>>

\* The second Stop call: close(s.queue) on the open channel.
S2_Close ==
    /\ ~crashed
    /\ stop2Pc = "close"
    /\ ~closed
    /\ closed' = TRUE
    /\ stop2Pc' = "wait"
    /\ UNCHANGED <<regVars, orchVars, agents, enq, queue, cancelled, wg, tasks, sched, wpc, wcur,
                   wres, werr, runDone, stopPc, stopSnap, stopRun, execLog, execRet, crashed>>

\* The second Stop call: close(s.queue) on the closed channel panics.
S2_ClosePanic ==
    /\ ~crashed
    /\ stop2Pc = "close"
    /\ closed
    /\ stop2Pc' = "panicked"
    /\ UNCHANGED <<regVars, orchVars, agents, enq, queue, closed, cancelled, wg, tasks, sched,
                   wpc, wcur, wres, werr, runDone, stopPc, stopSnap, stopRun, execLog, execRet,
                   crashed>>

\* The second Stop call: s.wg.Wait() returns, and so does Stop.
S2_Wait ==
    /\ ~crashed
    /\ stop2Pc = "wait"
    /\ WaitDone
    /\ stop2Pc' = "returned"
    /\ UNCHANGED <<regVars, orchVars, agents, enq, queue, closed, cancelled, wg, tasks, sched,
                   wpc, wcur, wres, werr, runDone, stopPc, stopSnap, stopRun, execLog, execRet,
                   crashed>>

NextStopTwice ==
    \/ StepButCancel
    \/ S_Cancel
    \/ S_ClosePanic
    \/ S2_Cancel
    \/ S2_Close
    \/ S2_ClosePanic
    \/ S2_Wait

SpecStopTwice ==
    /\ Init
    /\ [][NextStopTwice]_vars
    /\ \A w \in Workers : WF_vars(WorkerStep(w))
    /\ WF_vars(S_Close) /\ WF_vars(S_ClosePanic) /\ WF_vars(S_Wait)
    /\ WF_vars(S2_Close) /\ WF_vars(S2_ClosePanic) /\ WF_vars(S2_Wait)

\* A Stop call is past close(s.queue) without a panic.
PastClose(pc) == pc \in {"wait", "returned"}

\* C31: of two Stop() calls on one scheduler, the one that closes the queue
\* eventually returns; the other one never returns and never gets past
\* close(s.queue), it panics there once both calls have been made.
C31_StopOneShot ==
    /\ [](~(PastClose(stopPc) /\ PastClose(stop2Pc)))
    /\ [](stopPc = "panicked" => PastClose(stop2Pc))
    /\ [](stop2Pc = "panicked" => PastClose(stopPc))
    /\ (stopPc = "wait") ~> (stopPc = "returned")
    /\ (stop2Pc = "wait") ~> (stop2Pc = "returned")
    /\ (stopPc # "idle" /\ stop2Pc # "idle")
           ~> (stopPc = "panicked" \/ stop2Pc = "panicked")

(***************************************************************************)
(* The Scheduler with one worker and no Stop, with the order in which the  *)
(* tasks enter the queue noted down.  Schedule callers arrive in any       *)
(* order.                                                                  *)
(***************************************************************************)
\* Schedule, with the task noted down when its send completes.
ScheduleObserved(t, ty) == Send(t, ty, Append(enq, t))

\* The blocked send completing, with the task noted down.
ScheduleUnblockObserved(t) == SendUnblock(t, Append(enq, t))

\* Run(1)
RunOne == Run(1)

NextFifo ==
    \/ \E t \in TaskIds, ty \in SchedTaskTypes : ScheduleObserved(t, ty)
    \/ \E t \in TaskIds : ScheduleUnblockObserved(t)
    \/ RunOne
    \/ \E w \in Workers : W_Dequeue(w)
    \/ \E w \in Workers : W_SelectFail(w)
    \/ \E w \in Workers : W_FailResult(w)
    \/ \E w \in Workers : W_SelectOk(w)
    \/ \E w \in Workers, o \in Outcomes : W_ExecReturn(w, o)
    \/ \E w \in Workers : W_SetResult(w)
    \/ \E w \in Workers : W_SetError(w)
    \/ \E w \in Workers : W_SetErrorPanic(w)

SpecFifo == Init /\ [][NextFifo]_vars

\* The tasks waiting in the queue are the latest to have entered it, in
\* the order they entered.
QueueIsTailOfEnq ==
    /\ Len(queue) <= Len(enq)
    /\ \A i \in 1..Len(queue) : queue[i] = enq[Len(enq) - Len(queue) + i]

\* C27: the queue holds the tasks in the order they entered it and hands
\* them out from its head; with one worker and no Stop, whenever a task has
\* left its status queued behind, every task that entered the queue before
\* it has reached its terminal status.
C27_FifoDelivery ==
    /\ QueueIsTailOfEnq
    /\ \A w \in Workers : wcur[w] # NoTask =>
           /\ Len(enq) > Len(queue)
           /\ enq[Len(enq) - Len(queue)] = wcur[w]
    /\ \A i, j \in 1..Len(enq) :
           i < j /\ tasks[enq[j]].Status # "queued" =>
               tasks[enq[i]].Status \in Terminal

\* Every task has been scheduled, in an order that is not the order of the
\* task numbers, and all of them are terminal.
C27_Witness ==
    /\ Len(enq) = NumTasks
    /\ enq[1] > enq[2]
    /\ \A t \in TaskIds : tasks[t].Status \in Terminal /\ Handled(t)

(***************************************************************************)
(* Orchestrator: one call of ExecuteInfrastructureWorkflow                 *)
(***************************************************************************)
StepIdents == {<<"step-a", "Step A">>, <<"step-b", "Step B">>}

\* WorkflowStep values; Parameters are passed through to the task and not
\* looked at by the orchestrator.
StepChoices ==
    {[ID |-> id[1], Name |-> id[2], TaskType |-> ty, DependsOn |-> <<>>,
      ContinueOnError |-> c] :
        id \in StepIdents, ty \in TaskTypes, c \in BOOLEAN}

Workflows == UNION {[1..n -> StepChoices] : n \in 0..MaxSteps}

WorkflowID == "wf-1"

\* result := &WorkflowResult{WorkflowID: workflow.ID, Steps: make(...)}
InitOrch ==
    /\ InitRegistry
    /\ InitSched
    /\ IdleReg
    /\ IdleBuild
    /\ IdleCtor
    /\ LiveCtx
    /\ wf \in Workflows
    /\ opc = "loop"
    /\ oi = 0
    /\ oresult = [WorkflowID |-> WorkflowID, Status |-> "", Steps |-> <<>>]
    /\ oerr = NilError
    /\ olog = <<>>

\* The step list read from the back.
StepAtReversed(steps, i) == steps[Len(steps) - i]

\* for i, step := range workflow.Steps
StepAt(steps, i) == steps[i + 1]

\* ExecuteTask: the error returned when Select fails.
ExecuteTaskError(taskType) ==
    "no agent available for task type '" \o taskType \o "': " \o SelectError(taskType)

StepFailedError(order, err) ==
    "workflow step " \o ToString(order) \o " failed: " \o err

StepHadError(order, err) ==
    "workflow step " \o ToString(order) \o " had error: " \o err

\* A StepResult numbered from zero.
NewStepResultZeroBased(step, i) ==
    [StepID |-> step.ID, Name |-> step.Name, Order |-> i,
     Status |-> "", Output |-> "<nil>", Error |-> ""]

\* stepResult := StepResult{StepID: step.ID, Name: step.Name, Order: i + 1}
NewStepResult(step, i) ==
    [StepID |-> step.ID, Name |-> step.Name, Order |-> i + 1,
     Status |-> "", Output |-> "<nil>", Error |-> ""]

\* Where the loop goes after ExecuteTask returned an error.
AfterHardFailContinue(step) == IF step.ContinueOnError THEN "loop" ELSE "returned"

AfterHardFail(step) == "returned"

\* An error return that leaves the failed step out of result.Steps.
HardFailNoAppend(step, err) ==
    /\ oresult' = [oresult EXCEPT !.Status = "failed"]
    /\ opc' = "returned"
    /\ oerr' = StepFailedError(oi + 1, err)
    /\ oi' = oi

\* if err != nil { ... return result, xerrors.Errorf(...) }
HardFail(step, err) ==
    /\ oresult' = [oresult EXCEPT
                     !.Steps = Append(@, [NewStepResult(step, oi) EXCEPT
                                             !.Status = "failed", !.Error = err]),
                     !.Status = "failed"]
    /\ opc' = AfterHardFail(step)
    /\ IF AfterHardFail(step) = "returned"
       THEN oerr' = StepFailedError(oi + 1, err) /\ oi' = oi
       ELSE oerr' = oerr /\ oi' = oi + 1

\* One loop iteration: ExecuteTask fails in Registry.Select.
O_Unresolved ==
    /\ opc = "loop"
    /\ oi < Len(wf)
    /\ SelectAgent(agents, StepAt(wf, oi).TaskType) = NoAgent
    /\ olog' = Append(olog, [step |-> oi + 1, id |-> StepAt(wf, oi).ID, agent |-> NoAgent,
                             ret |-> "unresolved"])
    /\ HardFail(StepAt(wf, oi), ExecuteTaskError(StepAt(wf, oi).TaskType))
    /\ UNCHANGED <<regVars, agents, schedVars, ctorVars, octx, buildVars, wf>>

\* One loop iteration: the agent's Execute returns an error.
O_ExecFail(outcome) ==
    /\ opc = "loop"
    /\ oi < Len(wf)
    /\ SelectAgent(agents, StepAt(wf, oi).TaskType) # NoAgent
    /\ ExecErr(outcome) # NilError
    /\ olog' = Append(olog, [step |-> oi + 1, id |-> StepAt(wf, oi).ID,
                             agent |-> SelectAgent(agents, StepAt(wf, oi).TaskType),
                             ret |-> outcome])
    /\ HardFail(StepAt(wf, oi), ExecErr(outcome))
    /\ UNCHANGED <<regVars, agents, schedVars, ctorVars, octx, buildVars, wf>>

\* if taskResult.Error != nil && !step.ContinueOnError
SoftAbortInverted(res, step) == res.Error # NilError /\ step.ContinueOnError

SoftAbort(res, step) == res.Error # NilError /\ ~step.ContinueOnError

\* One loop iteration: Execute returns a result and no error.
O_ExecOk(outcome) ==
    /\ opc = "loop"
    /\ oi < Len(wf)
    /\ SelectAgent(agents, StepAt(wf, oi).TaskType) # NoAgent
    /\ ExecErr(outcome) = NilError
    /\ olog' = Append(olog, [step |-> oi + 1, id |-> StepAt(wf, oi).ID,
                             agent |-> SelectAgent(agents, StepAt(wf, oi).TaskType),
                             ret |-> outcome])
    /\ LET step == StepAt(wf, oi)
           res == ExecResult(outcome)
           sr == [NewStepResult(step, oi) EXCEPT
                     !.Status = "completed", !.Output = res.Output]
       IN  IF SoftAbort(res, step)
           THEN /\ oresult' = [oresult EXCEPT !.Steps = Append(@, sr),
                                              !.Status = "failed"]
                /\ oerr' = StepHadError(oi + 1, res.Error)
                /\ opc' = "returned"
                /\ oi' = oi
           ELSE /\ oresult' = [oresult EXCEPT !.Steps = Append(@, sr)]
                /\ oi' = oi + 1
                /\ UNCHANGED <<oerr, opc>>
    /\ UNCHANGED <<regVars, agents, schedVars, ctorVars, octx, buildVars, wf>>

\* A return after the loop that leaves result.Status as it was built.
O_FinishNoStatus ==
    /\ opc = "loop"
    /\ oi = Len(wf)
    /\ opc' = "returned"
    /\ UNCHANGED <<regVars, agents, schedVars, ctorVars, octx, buildVars, wf, oi, oerr, olog, oresult>>

\* A range loop that ends early on a context that is done.
LoopOverOnDone(ctx, i, n) == i = n \/ ctx # "live"

\* for i, step := range workflow.Steps: the loop ends after the last step,
\* whatever the state of ctx.
LoopOver(ctx, i, n) == i = n

\* The loop is over: result.Status = "completed"; return result, nil.
O_Finish ==
    /\ opc = "loop"
    /\ LoopOver(octx, oi, Len(wf))
    /\ oresult' = [oresult EXCEPT !.Status = "completed"]
    /\ opc' = "returned"
    /\ UNCHANGED <<regVars, agents, schedVars, ctorVars, octx, buildVars, wf, oi, oerr, olog>>

NextOrch ==
    \/ O_Unresolved
    \/ \E o \in Outcomes : O_ExecFail(o)
    \/ \E o \in Outcomes : O_ExecOk(o)
    \/ O_Finish

SpecOrch == InitOrch /\ [][NextOrch]_vars

(***************************************************************************)
(* Orchestrator properties                                                 *)
(***************************************************************************)
HardRets == {"unresolved", "hardnil", "hardres"}

\* The error ExecuteTask returned for a logged call that failed.
HardErrorOf(e) ==
    IF e.ret = "unresolved" THEN ExecuteTaskError(wf[e.step].TaskType) ELSE ExecError

\* Some step other than k stopped the workflow.
AbortedElsewhere(k) ==
    \E j \in 1..Len(olog) :
        /\ j # k
        /\ \/ olog[j].ret \in HardRets
           \/ olog[j].ret = "soft" /\ ~wf[j].ContinueOnError

\* C3: a step that returns a Result carrying an error, under
\* ContinueOnError, gets a StepResult with status completed that carries
\* the error; the later steps are executed and have their StepResults, and
\* the workflow ends completed unless another step aborts it.
C3_ContinueOnError ==
    \A k \in 1..Len(olog) :
        olog[k].ret = "soft" /\ wf[k].ContinueOnError =>
            /\ oresult.Steps[k].Status = "completed"
            /\ oresult.Steps[k].Error = AppError
            /\ opc = "returned" /\ ~AbortedElsewhere(k) =>
                   /\ Len(olog) = Len(wf)
                   /\ Len(oresult.Steps) = Len(wf)
                   /\ oresult.Status = "completed"

\* C4: when ExecuteTask fails for step k (no agent, or Execute returns an
\* error) the call has returned a non-nil error and status failed with
\* exactly k StepResults, the first k-1 completed and the k-th failed with
\* the error text, and no step after k was executed, whatever
\* ContinueOnError of step k is.
C4_HardAbort ==
    \A k \in 1..Len(olog) :
        olog[k].ret \in HardRets =>
            /\ opc = "returned"
            /\ oerr = StepFailedError(k, HardErrorOf(olog[k]))
            /\ oresult.Status = "failed"
            /\ Len(oresult.Steps) = k
            /\ Len(olog) = k
            /\ \A j \in 1..(k - 1) : oresult.Steps[j].Status = "completed"
            /\ oresult.Steps[k].Status = "failed"
            /\ oresult.Steps[k].Error = HardErrorOf(olog[k])

\* Step 2 of a three-step workflow failed hard under ContinueOnError.
C4_Witness ==
    /\ Len(wf) = 3
    /\ Len(olog) = 2
    /\ olog[2].ret \in HardRets
    /\ wf[2].ContinueOnError
    /\ opc = "returned"

\* C5: when step k returns a Result carrying an error, with no execution
\* error and ContinueOnError false, its StepResult is appended with status
\* completed, the workflow has status failed, a non-nil error is returned
\* and no later step is executed.
C5_SoftAbort ==
    \A k \in 1..Len(olog) :
        olog[k].ret = "soft" /\ ~wf[k].ContinueOnError =>
            /\ opc = "returned"
            /\ oerr = StepHadError(k, AppError)
            /\ oerr # NilError
            /\ oresult.Status = "failed"
            /\ Len(oresult.Steps) = k
            /\ oresult.Steps[k].Status = "completed"
            /\ oresult.Steps[k].StepID = wf[k].ID
            /\ Len(olog) = k

\* Step 2 of a three-step workflow returned a soft error without
\* ContinueOnError.
C5_Witness ==
    /\ Len(wf) = 3
    /\ Len(olog) = 2
    /\ olog[2].ret = "soft"
    /\ ~wf[2].ContinueOnError
    /\ opc = "returned"

\* C13: as long as every step executed so far resolved and returned without
\* any error, the providers were invoked one at a time in list order, each
\* step once, and the i-th StepResult has the i-th step's ID and name,
\* Order = i and status completed; when the call returns after such a run,
\* all n steps were executed, the status is completed with exactly n
\* StepResults and no error is returned.
C13_SequentialOrder ==
    (\A k \in 1..Len(olog) : olog[k].ret = "ok") =>
        /\ \A k \in 1..Len(olog) : olog[k].step = k
        /\ Len(oresult.Steps) = Len(olog)
        /\ \A i \in 1..Len(oresult.Steps) :
               /\ oresult.Steps[i].StepID = wf[i].ID
               /\ oresult.Steps[i].Name = wf[i].Name
               /\ oresult.Steps[i].Order = i
               /\ oresult.Steps[i].Status = "completed"
        /\ opc = "returned" =>
               /\ Len(olog) = Len(wf)
               /\ Len(oresult.Steps) = Len(wf)
               /\ oresult.Status = "completed"
               /\ oerr = NilError

\* A workflow of three steps, not all with the same ID, has run without any
\* error and returned.
C13_Witness ==
    /\ Len(wf) = 3
    /\ wf[1].ID # wf[2].ID
    /\ opc = "returned"
    /\ Len(olog) = 3
    /\ \A k \in 1..3 : olog[k].ret = "ok"
    /\ oresult.Steps[3].Order = 3

\* C14: at every moment result.Steps is a prefix of the workflow's steps in
\* their order (entry i has step i's ID and Order = i), with one entry per
\* step executed and none for any later step; every entry but the last is
\* completed and only the last one can be failed; when the workflow aborts
\* at step k the list has exactly k entries and the status is failed.
C14_PartialResultShape ==
    /\ Len(oresult.Steps) <= Len(wf)
    /\ Len(oresult.Steps) = Len(olog)
    /\ \A i \in 1..Len(oresult.Steps) :
           /\ oresult.Steps[i].StepID = wf[i].ID
           /\ oresult.Steps[i].Order = i
           /\ olog[i].step = i
           /\ oresult.Steps[i].Status \in {"completed", "failed"}
           /\ i < Len(oresult.Steps) => oresult.Steps[i].Status = "completed"
    /\ opc = "returned" /\ oerr # NilError =>
           /\ oresult.Status = "failed"
           /\ Len(oresult.Steps) >= 1
           /\ LET k == Len(oresult.Steps)
              IN  \/ olog[k].ret \in HardRets /\ oresult.Steps[k].Status = "failed"
                  \/ olog[k].ret = "soft" /\ oresult.Steps[k].Status = "completed"
    /\ opc = "returned" /\ oerr = NilError =>
           /\ oresult.Status = "completed"
           /\ Len(oresult.Steps) = Len(wf)

\* A three-step workflow aborted at its second step: two entries, the first
\* completed and the last failed, and none for the third step.
C14_Witness ==
    /\ Len(wf) = 3
    /\ opc = "returned"
    /\ oerr # NilError
    /\ Len(oresult.Steps) = 2
    /\ oresult.Steps[1].Status = "completed"
    /\ oresult.Steps[2].Status = "failed"
    /\ oresult.Steps[2].StepID = wf[2].ID

\* C28: when ExecuteInfrastructureWorkflow has returned, the error is nil
\* exactly when result.Status is completed and not nil exactly when it is
\* failed, and the Status is one of the two.
C28_StatusAgreesWithError ==
    opc = "returned" =>
        /\ oresult.Status \in {"completed", "failed"}
        /\ oerr = NilError <=> oresult.Status = "completed"
        /\ oerr # NilError <=> oresult.Status = "failed"

\* A workflow has returned failed, with an error, after a step that went
\* through.
C28_Witness ==
    /\ opc = "returned"
    /\ oresult.Status = "failed"
    /\ oerr # NilError
    /\ Len(oresult.Steps) >= 2
    /\ oresult.Steps[1].Status = "completed"

(***************************************************************************)
(* ExecuteInfrastructureWorkflow with a context that is cancelled when the *)
(* call is made ("cancelled"), gets cancelled while the call runs          *)
(* ("cancelled-late"), or stays live.                                      *)
(***************************************************************************)
InitOrchCtx ==
    /\ InitRegistry
    /\ InitSched
    /\ IdleReg
    /\ IdleBuild
    /\ IdleCtor
    /\ octx \in {"live", "cancelled"}
    /\ wf \in Workflows
    /\ opc = "loop"
    /\ oi = 0
    /\ oresult = [WorkflowID |-> WorkflowID, Status |-> "", Steps |-> <<>>]
    /\ oerr = NilError
    /\ olog = <<>>

\* The caller cancels ctx while the workflow is being executed.
O_CtxCancel ==
    /\ opc = "loop"
    /\ octx = "live"
    /\ octx' = "cancelled-late"
    /\ UNCHANGED <<regVars, agents, schedVars, ctorVars, buildVars, wf, opc, oi, oresult,
                   oerr, olog>>

NextOrchCtx ==
    \/ O_Unresolved
    \/ \E o \in Outcomes : O_ExecFail(o)
    \/ \E o \in Outcomes : O_ExecOk(o)
    \/ O_Finish
    \/ O_CtxCancel

SpecOrchCtx == InitOrchCtx /\ [][NextOrchCtx]_vars

\* Every ExecuteTask call made so far found an agent whose Execute
\* succeeded.
AllSucceeded == \A k \in 1..Len(olog) : olog[k].ret = "ok"

\* C32: whatever the state of ctx, cancelled when the call is made
\* included, a workflow whose ExecuteTask calls all succeed has every step
\* executed, in list order, and returns status completed with a nil error.
C32_NoCancellationHook ==
    opc = "returned" /\ AllSucceeded =>
        /\ oresult.Status = "completed"
        /\ oerr = NilError
        /\ Len(olog) = Len(wf)
        /\ Len(oresult.Steps) = Len(wf)
        /\ \A k \in 1..Len(wf) :
               /\ olog[k].id = wf[k].ID
               /\ oresult.Steps[k].StepID = wf[k].ID
               /\ oresult.Steps[k].Status = "completed"

\* Called with a cancelled context, a workflow of the most steps has had
\* all of them executed and has returned completed.
C32_Witness ==
    /\ octx = "cancelled"
    /\ opc = "returned"
    /\ Len(wf) = MaxSteps
    /\ Len(olog) = MaxSteps
    /\ AllSucceeded
    /\ oresult.Status = "completed"

(***************************************************************************)
(* ExecuteInfrastructureWorkflow on workflows whose steps declare          *)
(* dependencies: on a later step, on themselves, on a step that is absent. *)
(***************************************************************************)
DepChoices == {<<>>, <<"step-b">>, <<"step-x">>}

DepStepChoices ==
    {[ID |-> id[1], Name |-> id[2], TaskType |-> ty, DependsOn |-> d,
      ContinueOnError |-> TRUE] :
        id \in StepIdents, ty \in {"docker", "bogus"}, d \in DepChoices}

DepWorkflows == UNION {[1..n -> DepStepChoices] : n \in 0..MaxSteps}

InitDeps ==
    /\ InitRegistry
    /\ InitSched
    /\ IdleReg
    /\ IdleBuild
    /\ IdleCtor
    /\ LiveCtx
    /\ wf \in DepWorkflows
    /\ opc = "loop"
    /\ oi = 0
    /\ oresult = [WorkflowID |-> WorkflowID, Status |-> "", Steps |-> <<>>]
    /\ oerr = NilError
    /\ olog = <<>>

SpecDeps == InitDeps /\ [][NextOrch]_vars

\* The IDs of the steps listed at positions from..to.
StepIDs(from, to) == {wf[j].ID : j \in from..to}

\* Step k names a dependency that is listed after it or not at all.
DependsOnLaterOrAbsent(k) ==
    \E i \in 1..Len(wf[k].DependsOn) : wf[k].DependsOn[i] \notin StepIDs(1, k - 1)

\* C18: whatever the steps' DependsOn hold, the k-th ExecuteTask call is
\* made for the k-th listed step; while the loop runs every step before the
\* loop index has been executed, and the call returns before the end of
\* the list only after an error of the step executed last, never because
\* of a dependency.
C18_DependenciesNotEnforced ==
    /\ \A k \in 1..Len(olog) :
           /\ olog[k].step = k
           /\ olog[k].id = wf[k].ID
           /\ olog[k].agent = SelectAgent(agents, wf[k].TaskType)
    /\ opc = "loop" => Len(olog) = oi
    /\ opc = "returned" /\ Len(olog) < Len(wf) =>
           /\ Len(olog) >= 1
           /\ \/ olog[Len(olog)].ret \in HardRets
              \/ olog[Len(olog)].ret = "soft" /\ ~wf[Len(olog)].ContinueOnError
           /\ oerr # NilError

\* Step 1 depends on step-b, which is listed after it; step 3 depends on a
\* step that is absent; all three have been executed, step 1 first.
C18_Witness ==
    /\ Len(wf) = 3
    /\ wf[1].ID = "step-a" /\ wf[1].DependsOn = <<"step-b">>
    /\ wf[2].ID = "step-b"
    /\ wf[3].DependsOn = <<"step-x">>
    /\ DependsOnLaterOrAbsent(1) /\ DependsOnLaterOrAbsent(3)
    /\ Len(olog) = 3
    /\ olog[1].id = "step-a"
    /\ opc = "returned"
    /\ oresult.Status = "completed"

(***************************************************************************)
(* CreateVMWorkflow: the step list built from a VMWorkflowConfig.  The     *)
(* workflow's ID, Name and Description and the steps' Parameters are       *)
(* formatted from the config and take no part in the choice of the steps.  *)
(***************************************************************************)
ContainerNames == {"web", "db"}
ManifestNames == {"app"}

SeqsUpTo(S, n) == UNION {[1..k -> S] : k \in 0..n}

Configs ==
    {[UseProxmox |-> p, Containers |-> cs, KubernetesManifests |-> ms] :
        p \in BOOLEAN,
        cs \in SeqsUpTo(ContainerNames, MaxContainers),
        ms \in SeqsUpTo(ManifestNames, MaxManifests)}

\* workflow := &InfrastructureWorkflow{..., Steps: []WorkflowStep{}}
InitBuild ==
    /\ InitRegistry
    /\ InitSched
    /\ IdleReg
    /\ IdleCtor
    /\ LiveCtx
    /\ cfg \in Configs
    /\ bpc = "step1"
    /\ bi = 0
    /\ wf = <<>>
    /\ opc = "idle"
    /\ oi = 0
    /\ oresult = [WorkflowID |-> "", Status |-> "", Steps |-> <<>>]
    /\ oerr = NilError
    /\ olog = <<>>

\* A WorkflowStep literal; ContinueOnError is left at its zero value.
MkStep(id, name, taskType, dependsOn) ==
    [ID |-> id, Name |-> name, TaskType |-> taskType, DependsOn |-> dependsOn,
     ContinueOnError |-> FALSE]

\* Step 1: Create VM in Proxmox.
B_CreateVM ==
    /\ bpc = "step1"
    /\ wf' = IF cfg.UseProxmox
             THEN Append(wf, MkStep("create-vm", "Create Virtual Machine", "vm", <<>>))
             ELSE wf
    /\ bpc' = "step2"
    /\ UNCHANGED <<regVars, agents, schedVars, ctorVars, octx, opc, oi, oresult, oerr, olog, cfg, bi>>

\* Step 2: Start VM.
B_StartVM ==
    /\ bpc = "step2"
    /\ wf' = IF cfg.UseProxmox
             THEN Append(wf, MkStep("start-vm", "Start Virtual Machine", "vm",
                                    <<"create-vm">>))
             ELSE wf
    /\ bpc' = "step3"
    /\ bi' = 0
    /\ UNCHANGED <<regVars, agents, schedVars, ctorVars, octx, opc, oi, oresult, oerr, olog, cfg>>

\* Container steps that depend on start-vm whatever the config says.
ContainerDependsOnAlways(vmConfig) == <<"start-vm">>

\* dependsOn := []string{}; if vmConfig.UseProxmox { dependsOn = []string{"start-vm"} }
ContainerDependsOn(vmConfig) == IF vmConfig.UseProxmox THEN <<"start-vm">> ELSE <<>>

\* Step 3: one turn of the loop over vmConfig.Containers.
B_Container ==
    /\ bpc = "step3"
    /\ bi < Len(cfg.Containers)
    /\ wf' = Append(wf, MkStep("deploy-container-" \o ToString(bi + 1),
                               "Deploy Container: " \o cfg.Containers[bi + 1],
                               "container", ContainerDependsOn(cfg)))
    /\ bi' = bi + 1
    /\ UNCHANGED <<regVars, agents, schedVars, ctorVars, octx, opc, oi, oresult, oerr, olog, cfg, bpc>>

\* Step 3 is over, or skipped with no containers.
B_ContainersDone ==
    /\ bpc = "step3"
    /\ bi = Len(cfg.Containers)
    /\ bpc' = "step4"
    /\ bi' = 0
    /\ UNCHANGED <<regVars, agents, schedVars, ctorVars, octx, opc, oi, oresult, oerr, olog, cfg, wf>>

\* Step 4: one turn of the loop over vmConfig.KubernetesManifests.
B_Manifest ==
    /\ bpc = "step4"
    /\ bi < Len(cfg.KubernetesManifests)
    /\ wf' = Append(wf, MkStep("deploy-k8s-" \o ToString(bi + 1),
                               "Deploy K8s: " \o cfg.KubernetesManifests[bi + 1],
                               "kubernetes", <<>>))
    /\ bi' = bi + 1
    /\ UNCHANGED <<regVars, agents, schedVars, ctorVars, octx, opc, oi, oresult, oerr, olog, cfg, bpc>>

\* Step 4 is over, or skipped with no manifests: return workflow.
B_Return ==
    /\ bpc = "step4"
    /\ bi = Len(cfg.KubernetesManifests)
    /\ bpc' = "returned"
    /\ UNCHANGED <<regVars, agents, schedVars, ctorVars, octx, opc, oi, oresult, oerr, olog, cfg, wf, bi>>

NextBuild ==
    \/ B_CreateVM
    \/ B_StartVM
    \/ B_Container
    \/ B_ContainersDone
    \/ B_Manifest
    \/ B_Return

SpecBuild == InitBuild /\ [][NextBuild]_vars

\* The number of steps that come before the container steps.
VMSteps == IF cfg.UseProxmox THEN 2 ELSE 0

\* C20: when CreateVMWorkflow returns, the steps are create-vm and start-vm
\* (both if and only if UseProxmox), then deploy-container-i for each
\* container i, then deploy-k8s-j for each manifest j, in this order and
\* nothing else, 2*[UseProxmox] + #containers + #manifests steps in all;
\* start-vm depends on create-vm, and every container step depends on
\* start-vm when UseProxmox is true and on nothing otherwise.
C20_CreateVMWorkflow ==
    bpc = "returned" =>
        LET nc == Len(cfg.Containers)
            nm == Len(cfg.KubernetesManifests)
        IN  /\ Len(wf) = VMSteps + nc + nm
            /\ cfg.UseProxmox =>
                   /\ wf[1].ID = "create-vm"
                   /\ wf[2].ID = "start-vm"
                   /\ wf[2].DependsOn = <<"create-vm">>
            /\ \A i \in 1..nc :
                   /\ wf[VMSteps + i].ID = "deploy-container-" \o ToString(i)
                   /\ wf[VMSteps + i].DependsOn =
                          IF cfg.UseProxmox THEN <<"start-vm">> ELSE <<>>
            /\ \A j \in 1..nm :
                   wf[VMSteps + nc + j].ID = "deploy-k8s-" \o ToString(j)
            /\ \A k \in 1..Len(wf) :
                   wf[k].ID \in {"create-vm", "start-vm"} => cfg.UseProxmox

\* Built without Proxmox from two containers and a manifest: three steps,
\* the container steps first and with no dependency.
C20_Witness ==
    /\ bpc = "returned"
    /\ ~cfg.UseProxmox
    /\ Len(cfg.Containers) = 2
    /\ Len(cfg.KubernetesManifests) = 1
    /\ Len(wf) = 3
    /\ wf[1].ID = "deploy-container-1"
    /\ wf[2].DependsOn = <<>>
    /\ wf[3].ID = "deploy-k8s-1"

\* C29: in the workflow CreateVMWorkflow returns, no two steps have the
\* same ID and every ID in a step's DependsOn is the ID of a step listed
\* before it.
C29_BuiltInDependencyOrder ==
    bpc = "returned" =>
        /\ \A i, j \in 1..Len(wf) : wf[i].ID = wf[j].ID => i = j
        /\ \A k \in 1..Len(wf) : ~DependsOnLaterOrAbsent(k)

\* Built with Proxmox and the most containers: start-vm and every container
\* step declare a dependency.
C29_Witness ==
    /\ bpc = "returned"
    /\ cfg.UseProxmox
    /\ Len(cfg.Containers) = MaxContainers
    /\ Len(wf) >= 2 + MaxContainers
    /\ \A k \in 2..(2 + MaxContainers) : wf[k].DependsOn # <<>>

(***************************************************************************)
(* NewOrchestrator and Orchestrator.ExecuteTask                            *)
(***************************************************************************)
\* The configuration fields NewOrchestrator reads, each empty or set.
OrchConfigs ==
    [HuggingFaceAPIKey : {"", "hf-key"},
     IOIntelligenceAPIKey : {"", "ioi-key"},
     ProxmoxURL : {"", "https://pve:8006"}]

\* Task types handed to ExecuteTask: some for every connector, one that two
\* connectors support and one that none supports.
OrchTaskTypes ==
    {"llm", "embedding", "vm", "container", "infrastructure", "docker",
     "kubernetes", "nix", "gpu", "bogus"}

\* registry := NewRegistry()
InitNewOrch ==
    /\ agents = <<>>
    /\ InitSched
    /\ IdleReg
    /\ IdleBuild
    /\ wf = <<>>
    /\ opc = "idle"
    /\ oi = 0
    /\ oresult = [WorkflowID |-> "", Status |-> "", Steps |-> <<>>]
    /\ oerr = NilError
    /\ olog = <<>>
    /\ LiveCtx
    /\ config \in OrchConfigs
    /\ npc = "huggingface"
    /\ ntype = ""
    /\ nagent = NoAgent
    /\ nerr = NilError

\* One registration of NewOrchestrator: Register(name) when the connector is
\* configured, then on to the next one.
RegisterStep(at, configured, name, next) ==
    /\ npc = at
    /\ agents' = IF configured THEN Append(agents, name) ELSE agents
    /\ npc' = next
    /\ UNCHANGED <<regVars, schedVars, wf, opc, oi, oresult, oerr, olog, buildVars,
                   octx, config, ntype, nagent, nerr>>

\* if config.HuggingFace.APIKey != ""
N_HuggingFace ==
    RegisterStep("huggingface", config.HuggingFaceAPIKey # "", "huggingface",
                 "io_intelligence")

\* if config.IOIntelligence.APIKey != ""
N_IOIntelligence ==
    RegisterStep("io_intelligence", config.IOIntelligenceAPIKey # "",
                 "io_intelligence", "proxmox")

\* A Proxmox connector registered whatever the configuration says.
ProxmoxConfiguredAlways(c) == TRUE

\* if config.Infrastructure.Proxmox.URL != ""
ProxmoxConfigured(c) == c.ProxmoxURL # ""

N_Proxmox == RegisterStep("proxmox", ProxmoxConfigured(config), "proxmox", "docker")

N_Docker == RegisterStep("docker", TRUE, "docker", "kubernetes")

N_Kubernetes == RegisterStep("kubernetes", TRUE, "kubernetes", "nix")

N_Nix == RegisterStep("nix", TRUE, "nix", "gpu")

\* The last registration; NewOrchestrator returns the Orchestrator.
N_GPU == RegisterStep("gpu", TRUE, "gpu", "built")

\* ExecuteTask: o.registry.Select(task.Type), then the agent's Execute or the
\* wrapped Select error.
N_ExecuteTask(taskType) ==
    /\ npc = "built"
    /\ ntype' = taskType
    /\ nagent' = SelectAgent(agents, taskType)
    /\ nerr' = IF SelectAgent(agents, taskType) = NoAgent
               THEN ExecuteTaskError(taskType)
               ELSE NilError
    /\ UNCHANGED <<regVars, schedVars, agents, wf, opc, oi, oresult, oerr, olog, buildVars,
                   octx, config, npc>>

NextNewOrch ==
    \/ N_HuggingFace
    \/ N_IOIntelligence
    \/ N_Proxmox
    \/ N_Docker
    \/ N_Kubernetes
    \/ N_Nix
    \/ N_GPU
    \/ \E ty \in OrchTaskTypes : N_ExecuteTask(ty)

SpecNewOrch == InitNewOrch /\ [][NextNewOrch]_vars

\* The registration order the connectors are to have.
Precedence ==
    <<"huggingface", "io_intelligence", "proxmox", "docker", "kubernetes", "nix", "gpu">>

\* The connectors the configuration asks for.
Configured(name) ==
    CASE name = "huggingface" -> config.HuggingFaceAPIKey # ""
      [] name = "io_intelligence" -> config.IOIntelligenceAPIKey # ""
      [] name = "proxmox" -> config.ProxmoxURL # ""
      [] OTHER -> TRUE

\* Positions in Precedence of the configured connectors supporting taskType.
Candidates(taskType) ==
    {i \in 1..Len(Precedence) :
        Configured(Precedence[i]) /\ Supports(Precedence[i], taskType)}

InitReg ==
    /\ agents = <<>>
    /\ InitSched
    /\ IdleOrch
    /\ IdleList
    /\ rwWriter = FALSE
    /\ rwReaders = 0
    /\ regPc = [a \in AgentNames |-> "idle"]
    /\ selPc = [c \in Selectors |-> "idle"]
    /\ selCat = [c \in Selectors |-> ""]
    /\ selSnap = [c \in Selectors |-> <<>>]
    /\ selIdx = [c \in Selectors |-> 0]
    /\ selRes = [c \in Selectors |-> NoAgent]
    /\ selErr = [c \in Selectors |-> NilError]

\* Register: r.mu.Lock()
R_Lock(a) ==
    /\ regPc[a] = "idle"
    /\ ~rwWriter
    /\ rwReaders = 0
    /\ rwWriter' = TRUE
    /\ regPc' = [regPc EXCEPT ![a] = "locked"]
    /\ UNCHANGED <<agents, schedVars, orchVars, lcVars, rwReaders, selPc, selCat,
                   selSnap, selIdx, selRes, selErr>>

\* Register: r.agents = append(r.agents, agent)
R_Append(a) ==
    /\ regPc[a] = "locked"
    /\ agents' = Append(agents, a)
    /\ regPc' = [regPc EXCEPT ![a] = "appended"]
    /\ UNCHANGED <<schedVars, orchVars, lcVars, rwWriter, rwReaders, selPc, selCat,
                   selSnap, selIdx, selRes, selErr>>

\* Register: the deferred r.mu.Unlock()
R_Unlock(a) ==
    /\ regPc[a] = "appended"
    /\ rwWriter' = FALSE
    /\ regPc' = [regPc EXCEPT ![a] = "done"]
    /\ UNCHANGED <<agents, schedVars, orchVars, lcVars, rwReaders, selPc, selCat,
                   selSnap, selIdx, selRes, selErr>>

\* Select: r.mu.RLock(), and the range loop takes r.agents.
Sel_RLock(c, taskType) ==
    /\ selPc[c] \in {"idle", "done"}
    /\ ~rwWriter
    /\ rwReaders' = rwReaders + 1
    /\ selPc' = [selPc EXCEPT ![c] = "scan"]
    /\ selCat' = [selCat EXCEPT ![c] = taskType]
    /\ selSnap' = [selSnap EXCEPT ![c] = agents]
    /\ selIdx' = [selIdx EXCEPT ![c] = 1]
    /\ selRes' = [selRes EXCEPT ![c] = NoAgent]
    /\ selErr' = [selErr EXCEPT ![c] = NilError]
    /\ UNCHANGED <<agents, schedVars, orchVars, lcVars, rwWriter, regPc>>

\* A scan in which a later supporter replaces an earlier one.
Sel_ScanLastWins(c) ==
    /\ selPc[c] = "scan"
    /\ IF selIdx[c] > Len(selSnap[c])
       THEN /\ selPc' = [selPc EXCEPT ![c] = "found"]
            /\ selErr' = IF selRes[c] = NoAgent
                         THEN [selErr EXCEPT ![c] = SelectError(selCat[c])]
                         ELSE selErr
            /\ UNCHANGED <<selIdx, selRes>>
       ELSE /\ selIdx' = [selIdx EXCEPT ![c] = @ + 1]
            /\ selRes' = IF Supports(selSnap[c][selIdx[c]], selCat[c])
                         THEN [selRes EXCEPT ![c] = selSnap[c][selIdx[c]]]
                         ELSE selRes
            /\ UNCHANGED <<selPc, selErr>>
    /\ UNCHANGED <<agents, schedVars, orchVars, lcVars, rwWriter, rwReaders, regPc,
                   selCat, selSnap>>

\* Select: one turn of the range loop, or its end with the error.
Sel_Scan(c) ==
    /\ selPc[c] = "scan"
    /\ IF selIdx[c] > Len(selSnap[c])
       THEN /\ selPc' = [selPc EXCEPT ![c] = "found"]
            /\ selRes' = [selRes EXCEPT ![c] = NoAgent]
            /\ selErr' = [selErr EXCEPT ![c] = SelectError(selCat[c])]
            /\ UNCHANGED selIdx
       ELSE IF Supports(selSnap[c][selIdx[c]], selCat[c])
       THEN /\ selPc' = [selPc EXCEPT ![c] = "found"]
            /\ selRes' = [selRes EXCEPT ![c] = selSnap[c][selIdx[c]]]
            /\ UNCHANGED <<selIdx, selErr>>
       ELSE /\ selIdx' = [selIdx EXCEPT ![c] = @ + 1]
            /\ UNCHANGED <<selPc, selRes, selErr>>
    /\ UNCHANGED <<agents, schedVars, orchVars, lcVars, rwWriter, rwReaders, regPc,
                   selCat, selSnap>>

\* Select: the deferred r.mu.RUnlock(); the call returns.
Sel_RUnlock(c) ==
    /\ selPc[c] = "found"
    /\ rwReaders' = rwReaders - 1
    /\ selPc' = [selPc EXCEPT ![c] = "done"]
    /\ UNCHANGED <<agents, schedVars, orchVars, lcVars, rwWriter, regPc, selCat,
                   selSnap, selIdx, selRes, selErr>>

NextReg ==
    \/ \E a \in AgentNames : R_Lock(a)
    \/ \E a \in AgentNames : R_Append(a)
    \/ \E a \in AgentNames : R_Unlock(a)
    \/ \E c \in Selectors, ty \in TaskTypes : Sel_RLock(c, ty)
    \/ \E c \in Selectors : Sel_Scan(c)
    \/ \E c \in Selectors : Sel_RUnlock(c)

SpecReg == InitReg /\ [][NextReg]_vars

(***************************************************************************)
(* Registry properties                                                     *)
(***************************************************************************)
\* a is the earliest registered agent that supports taskType.
EarliestSupporter(a, taskType) ==
    \E i \in 1..Len(agents) :
        /\ agents[i] = a
        /\ Supports(a, taskType)
        /\ \A j \in 1..(i - 1) : ~Supports(agents[j], taskType)

\* C6: a Select call that has finished its scan, still holding the read
\* lock, has the earliest registered supporter of its task type, or no agent
\* when none is registered; an agent a Select has returned stays the
\* earliest registered supporter.
C6_FirstMatch ==
    \A c \in Selectors :
        /\ selPc[c] = "found" =>
               IF \E i \in 1..Len(agents) : Supports(agents[i], selCat[c])
               THEN EarliestSupporter(selRes[c], selCat[c])
               ELSE selRes[c] = NoAgent
        /\ selPc[c] = "done" /\ selRes[c] # NoAgent =>
               EarliestSupporter(selRes[c], selCat[c])

\* Two Select calls for a type two registered agents support have both
\* found the one registered first, while a Register call waits for the lock.
C6_Witness ==
    /\ Len(agents) >= 2
    /\ \A c \in {1, 2} : selPc[c] = "found" /\ selCat[c] = "container"
    /\ selRes[1] = agents[1]
    /\ selRes[2] = agents[1]
    /\ \E i \in 2..Len(agents) : Supports(agents[i], "container")
    /\ \E a \in AgentNames : regPc[a] = "idle"

\* Fair scheduling of the goroutines inside Register and Select: a call
\* that can take its next step takes it.
SpecRegLive ==
    /\ InitReg
    /\ [][NextReg]_vars
    /\ \A c \in Selectors : WF_vars(Sel_Scan(c)) /\ WF_vars(Sel_RUnlock(c))
    /\ \A a \in AgentNames : WF_vars(R_Append(a)) /\ WF_vars(R_Unlock(a))

\* The slice Select call c ranges over holds no agent supporting its type.
Miss(c) == \A i \in 1..Len(selSnap[c]) : ~Supports(selSnap[c][i], selCat[c])

\* C15: a Select call for a type none of the registered agents supports
\* (the registry may be empty) ends its scan with no agent and an error
\* whose text names the type, and it always returns; the read lock is held
\* only by the calls still inside Select, never together with a writer, so
\* a returned call leaves the lock free for later Register and Select calls.
C15_RegistryMiss ==
    /\ [](\A c \in Selectors :
             selPc[c] \in {"found", "done"} /\ Miss(c) =>
                 /\ selRes[c] = NoAgent
                 /\ selErr[c] = "no agent supports task type: " \o selCat[c])
    /\ [](/\ rwReaders = Cardinality({c \in Selectors : selPc[c] \in {"scan", "found"}})
          /\ ~(rwWriter /\ rwReaders > 0))
    /\ \A c \in Selectors :
           (selPc[c] = "scan" /\ Miss(c)) ~> (selPc[c] = "done" /\ selRes[c] = NoAgent)

\* One Select call missed on the empty registry and another one on a
\* registry holding agents; both have returned, the lock is free and a
\* Register call made after the first miss has gone through.
C15_Witness ==
    /\ \A c \in {1, 2} : selPc[c] = "done" /\ selRes[c] = NoAgent /\ Miss(c)
    /\ selSnap[1] = <<>>
    /\ selSnap[2] # <<>>
    /\ selErr[2] = "no agent supports task type: " \o selCat[2]
    /\ rwReaders = 0
    /\ ~rwWriter


(***************************************************************************)
(* Orchestrator.ListConnectors beside the Register and Select calls on the *)
(* Registry it reads.                                                      *)
(***************************************************************************)
\* A Register call is inside its critical section.
Registering(a) == regPc[a] \in {"locked", "appended"}

\* ListConnectors: for _, agent := range o.registry.agents takes the slice,
\* with no lock held and no Register call writing it.
L_Range ==
    /\ lcPc \in {"idle", "done"}
    /\ \A a \in AgentNames : regPc[a] # "locked"
    /\ lcPc' = "scan"
    /\ lcSnap' = agents
    /\ lcIdx' = 0
    /\ lcOut' = <<>>
    /\ UNCHANGED <<agents, schedVars, orchVars, rwWriter, rwReaders, regPc, selPc, selCat,
                   selSnap, selIdx, selRes, selErr>>

\* ListConnectors: the range loop takes the slice while Register(a) is at
\* r.agents = append(r.agents, agent): a data race.  The read yields the
\* slice from before the append, the one after it, or a slice header that
\* is part one and part the other (lcPc "torn").
L_RangeRace(a, outcome) ==
    /\ lcPc \in {"idle", "done"}
    /\ regPc[a] = "locked"
    /\ lcIdx' = 0
    /\ lcOut' = <<>>
    /\ CASE outcome = "before" -> lcPc' = "scan" /\ lcSnap' = agents
         [] outcome = "after" -> lcPc' = "scan" /\ lcSnap' = Append(agents, a)
         [] outcome = "torn" -> lcPc' = "torn" /\ lcSnap' = agents
    /\ UNCHANGED <<agents, schedVars, orchVars, rwWriter, rwReaders, regPc, selPc, selCat,
                   selSnap, selIdx, selRes, selErr>>

\* ListConnectors: one turn of the range loop; connectors = append(...).
L_Next ==
    /\ lcPc = "scan"
    /\ lcIdx < Len(lcSnap)
    /\ lcOut' = Append(lcOut, lcSnap[lcIdx + 1])
    /\ lcIdx' = lcIdx + 1
    /\ UNCHANGED <<agents, schedVars, orchVars, rwWriter, rwReaders, regPc, selPc, selCat,
                   selSnap, selIdx, selRes, selErr, lcPc, lcSnap>>

\* ListConnectors: return connectors.
L_Return ==
    /\ lcPc = "scan"
    /\ lcIdx = Len(lcSnap)
    /\ lcPc' = "done"
    /\ UNCHANGED <<agents, schedVars, orchVars, rwWriter, rwReaders, regPc, selPc, selCat,
                   selSnap, selIdx, selRes, selErr, lcSnap, lcIdx, lcOut>>

NextList ==
    \/ \E a \in AgentNames : R_Lock(a)
    \/ \E a \in AgentNames : R_Append(a)
    \/ \E a \in AgentNames : R_Unlock(a)
    \/ \E c \in Selectors, ty \in TaskTypes : Sel_RLock(c, ty)
    \/ \E c \in Selectors : Sel_Scan(c)
    \/ \E c \in Selectors : Sel_RUnlock(c)
    \/ L_Range
    \/ \E a \in AgentNames, o \in {"before", "after", "torn"} : L_RangeRace(a, o)
    \/ L_Next
    \/ L_Return

SpecList == InitReg /\ [][NextList]_vars

\* The calls that are reading r.agents: Select calls between RLock and
\* RUnlock, and a ListConnectors call in its range loop.
ReadingSelects == {c \in Selectors : selPc[c] \in {"scan", "found"}}

ListReading == lcPc \in {"scan", "torn"}

\* C30: every call reading the collection holds the lock shared, so that
\* the lock's reader count is the number of reading calls, and no call
\* reads the collection while a Register call is inside its critical
\* section.
C30_LockDiscipline ==
    /\ rwReaders = Cardinality(ReadingSelects) + (IF ListReading THEN 1 ELSE 0)
    /\ \A a \in AgentNames :
           Registering(a) => rwWriter /\ ReadingSelects = {} /\ ~ListReading

====
